---- MODULE Spec2Model ----
(***************************************************************************)
(* grab(): the request orchestrator of grab-url (grab-api.ts).  One call   *)
(* of grab is a process: its synchronous section up to the transport       *)
(* await is one step, the completion of the await is another; a throw is   *)
(* caught in the same step and a retry re-enters grab in that step.        *)
(* Shared state: the history log grab.log, the caller's response object,   *)
(* the clock.                                                              *)
(***************************************************************************)
EXTENDS Integers, Sequences, FiniteSets, TLC

\* ---- bounds ----
MaxCalls == 2      \* calls of grab issued in one run (one more in a light run)
MaxTime == 3       \* clock values 1..MaxTime (seconds)
MaxRetry == 2      \* largest retryAttempts a caller passes
MaxRepeat == 2     \* largest repeat a caller passes

\* ---- built-in defaults of the destructuring, grab-api.ts l.72-110 ----
DefaultCacheForTime == 60
DefaultTimeout == 30
DefaultRateLimit == 0
DefaultRetryAttempts == 0
DefaultDebounce == 0
DefaultRepeat == 0

\* the value a caller passes for a timed option (seconds): a window that
\* ends before the run does
ShortWindow == MaxTime - 2

Undefined == 0     \* an absent number: page, lastFetchTime, payload field

Calls == 1 .. MaxCalls + 1
Times == 1 .. MaxTime

\* the one path of the runs, after the baseURL join of l.121-124
path == "things"
paginateKey == "page"

VARIABLES
    now,      \* Date.now(), in seconds
    log,      \* grab.log, newest first
    cont,     \* response objects: cont[0] the caller's own object,
              \* cont[c] the {} that call c made for itself (l.74)
    call,     \* per call: options, position, signal, what it returned
    family,   \* the option keys the callers of this run pass
    defaults, \* grab.defaults, the process-wide defaults
    timers,   \* the intervals set at l.143, in the order they were set
    mock,     \* grab.mock[path], the mock handler registered under the path
    passed    \* the options object that the callers of a run marked "same"
              \* hold and pass to every call

vars == <<now, log, cont, call, family, defaults, timers, mock, passed>>

\* ---- option bundles -------------------------------------------------------
\* An options argument: given (FALSE: the argument was omitted), keys (the
\* keys present in it) and the value of every key, the built-in default
\* standing in for a key that is not present.
NoOptions ==
    [given |-> FALSE, keys |-> {},
     response |-> "own", cache |-> FALSE,
     cacheForTime |-> DefaultCacheForTime, timeout |-> DefaultTimeout,
     cancelOngoingIfNew |-> FALSE, cancelNewIfOngoing |-> FALSE,
     rateLimit |-> DefaultRateLimit, infiniteScroll |-> FALSE,
     retryAttempts |-> DefaultRetryAttempts, debounce |-> DefaultDebounce,
     repeat |-> DefaultRepeat, repeatEvery |-> Undefined, params |-> << >>,
     onRequest |-> FALSE, onResponse |-> FALSE, onError |-> FALSE,
     post |-> FALSE, setDefaults |-> FALSE]

OptionKeys ==
    {"response", "cache", "cacheForTime", "timeout", "cancelOngoingIfNew",
     "cancelNewIfOngoing", "rateLimit", "infiniteScroll", "retryAttempts",
     "debounce", "repeat", "repeatEvery", "params",
     "onRequest", "onResponse", "onError", "post", "setDefaults"}

\* the values a caller passes for a key it does pass
Passed(k) ==
    CASE k = "response" -> {"shared"}
      [] k = "cache" -> {TRUE}
      [] k = "cacheForTime" -> {ShortWindow}
      [] k = "timeout" -> {ShortWindow}
      [] k = "cancelOngoingIfNew" -> {TRUE}
      [] k = "cancelNewIfOngoing" -> {TRUE}
      [] k = "rateLimit" -> {ShortWindow}
      [] k = "infiniteScroll" -> {TRUE}
      [] k = "retryAttempts" -> 1 .. MaxRetry
      [] k = "debounce" -> {ShortWindow}
      [] k = "repeat" -> 1 .. MaxRepeat
      [] k = "repeatEvery" -> {ShortWindow}
      [] k = "params" -> {<< <<"q", 1>> >>}
      [] k \in {"onRequest", "onResponse", "onError"} -> {TRUE}
      [] k = "post" -> {TRUE}
      [] k = "setDefaults" -> {TRUE}

\* the params of the runs marked "order": the same two keys and values,
\* written in the one order or in the other
Orders == {<< <<"q", 1>>, <<"r", 2>> >>, << <<"r", 2>>, <<"q", 1>> >>}

\* l.285-287: the options of the in-flight policy
InFlightKeys == {"cancelOngoingIfNew", "cancelNewIfOngoing"}

\* the keys that every caller of a run passes when the run has them: the
\* callers share one response object, one setting of the windows and the
\* hooks (a hook is a function that observes and hands back what it was
\* given), and each passes a repeat, which may be 1
SharedKeys ==
    {"response", "timeout", "cacheForTime", "onRequest", "onResponse", "onError",
     "repeat"}

\* the same for the callers of a run over fam: where the params vary, every
\* caller paginates; where the order of the params varies, every caller
\* passes cancelNewIfOngoing; where the hooks are passed, every caller
\* passes the rateLimit; where an in-flight policy goes with the rateLimit
\* or the retries, every caller passes the policy and the rateLimit; where
\* cancelNewIfOngoing goes with the pagination, every caller passes both; where
\* it goes with the response object, every caller passes it and a caller
\* passes the object or none; where
\* the layers of defaults vary, a caller passes any of the keys or none
Shared(fam) ==
    IF fam \cap {"defaults", "setDefaults"} # {} THEN {}
    ELSE (SharedKeys \cup (IF "params" \in fam THEN {"infiniteScroll"} ELSE {})
                    \cup (IF "order" \in fam THEN {"cancelNewIfOngoing"} ELSE {})
                    \cup (IF "onError" \in fam THEN {"rateLimit"} ELSE {})
                    \cup (IF fam \cap {"rateLimit", "retryAttempts"} # {}
                             /\ fam \cap InFlightKeys # {}
                          THEN {"rateLimit"} \cup InFlightKeys ELSE {})
                    \cup (IF {"cancelNewIfOngoing", "infiniteScroll"} \subseteq fam
                          THEN {"cancelNewIfOngoing", "infiniteScroll"} ELSE {})
                    \cup (IF {"cancelNewIfOngoing", "response"} \subseteq fam
                          THEN {"cancelNewIfOngoing"} ELSE {}))
         \ (IF {"cancelNewIfOngoing", "response"} \subseteq fam
            THEN {"response"} ELSE {})

RECURSIVE Bundles(_, _)
Bundles(ks, shared) ==
    IF ks = {} THEN {[NoOptions EXCEPT !.given = TRUE]}
    ELSE LET k == CHOOSE x \in ks : TRUE
             rest == Bundles(ks \ {k}, shared)
         IN (IF k \in shared THEN {} ELSE rest) \cup
            {[o EXCEPT ![k] = v, !.keys = @ \cup {k}] : o \in rest, v \in Passed(k)}

\* the options arguments of a run whose callers pass the keys of fam; the
\* callers of the run with no keys also leave the argument out
OptionChoices(fam) ==
    IF fam = {} THEN {NoOptions} \cup Bundles(fam, {})
    ELSE IF "function" \in fam
    THEN {[o EXCEPT !.response = "function", !.keys = @ \cup {"response"}] :
            o \in Bundles(fam \cap OptionKeys, Shared(fam))}
    ELSE IF "order" \in fam
    THEN {[o EXCEPT !.params = p, !.keys = @ \cup {"params"}] :
            o \in Bundles(fam \cap OptionKeys, Shared(fam)), p \in Orders}
    ELSE Bundles(fam \cap OptionKeys, Shared(fam))

\* an options object without keys: {}
EmptyOptions == [NoOptions EXCEPT !.given = TRUE]

\* the value that the defaults of a layer hold for a key, one per layer so
\* that the layers are told apart
LayerValue(k, layer) ==
    CASE k = "timeout" -> IF layer = "instance" THEN ShortWindow + 1 ELSE ShortWindow + 2
      [] k = "retryAttempts" -> IF layer = "instance" THEN 1 ELSE MaxRetry

\* the defaults objects of a layer, over the keys of fam
LayerChoices(fam, layer) ==
    {[k \in DOMAIN NoOptions |->
         IF k = "given" THEN TRUE
         ELSE IF k = "keys" THEN K
         ELSE IF k \in K THEN LayerValue(k, layer) ELSE NoOptions[k]] :
       K \in SUBSET (fam \cap OptionKeys)}

\* the defaults of the instance a caller calls through; only the runs marked
\* "defaults" have instances and process-wide defaults
InstanceChoices(fam) ==
    IF "defaults" \in fam THEN LayerChoices(fam, "instance") ELSE {EmptyOptions}

\* { ...lower, ...upper }: a key of upper replaces that of lower whole
layer(lower, upper) ==
    [k \in DOMAIN NoOptions |->
        IF k = "given" THEN TRUE
        ELSE IF k = "keys" THEN lower.keys \cup upper.keys
        ELSE IF k \in upper.keys THEN upper[k] ELSE lower[k]]

\* l.499-502: the options that a call through an instance hands to grab
instance(instanceDefaults, options) == layer(instanceDefaults, options)

\* the runs: each explores the calls whose options are drawn over one set of
\* keys ("defaults" marks the runs whose callers go through instances, with
\* process-wide defaults in place; "scalar" those where the transport also
\* answers a paginated call with no array in the accumulate field; "mock"
\* those with a mock handler registered under the path; "function" those
\* whose callers pass a function as response, which hands back the object it
\* is called with; "order" those whose callers pass the same params with the
\* keys in either order; "same" those whose callers hold one options object
\* and pass it to every call)
Families ==
    { {},
      {"retryAttempts"},
      {"rateLimit"},
      {"cache", "cacheForTime"},
      {"debounce"},
      {"infiniteScroll", "response"},
      {"infiniteScroll", "response", "params"},
      {"cancelNewIfOngoing"},
      {"cancelOngoingIfNew"},
      {"cancelOngoingIfNew", "timeout"},
      {"defaults", "timeout", "retryAttempts"},
      {"repeat"},
      {"repeatEvery"},
      {"onRequest", "onResponse", "onError", "retryAttempts", "infiniteScroll",
       "response", "scalar"},
      {"mock", "post", "params"},
      {"function", "retryAttempts"},
      {"order", "cancelNewIfOngoing"},
      {"rateLimit", "retryAttempts", "onError"},
      {"rateLimit", "cancelNewIfOngoing"},
      {"rateLimit", "cancelOngoingIfNew"},
      {"cancelOngoingIfNew", "retryAttempts"},
      {"setDefaults", "debounce"},
      {"setDefaults", "retryAttempts"},
      {"cancelNewIfOngoing", "infiniteScroll"},
      {"cancelNewIfOngoing", "retryAttempts"},
      {"cancelNewIfOngoing", "response"},
      {"same", "retryAttempts"} }

\* the keys and marks of the runs whose calls are made one after another
OneByOne == {"params", "scalar", "onError", "setDefaults", "function", "same"}

\* l.75-80: the method of a call, from the options it was called with
methodOf(options) == IF options.post THEN "POST" ELSE "GET"

\* l.692-701: a mock handler: present (FALSE: none is registered), method
\* and params where hasMethod and hasParams tell that it has them, response
\* the payload it answers with.  It has no delay.
NoHandler ==
    [present |-> FALSE, hasMethod |-> FALSE, method |-> "",
     hasParams |-> FALSE, params |-> << >>, response |-> << >>]

\* the handlers of the runs marked "mock": registered under the path, with
\* or without a method and params
Handlers ==
    {[present |-> TRUE, hasMethod |-> m # "", method |-> m,
      hasParams |-> p # << >>, params |-> p,
      response |-> <<[id |-> 8, hasItems |-> FALSE, items |-> << >>,
                      scalar |-> FALSE]>>] :
       m \in {"", "GET", "POST"}, p \in {<< >>} \cup Passed("params")}

\* the options whose effect depends on the clock within a run
TimedKeys == {"rateLimit", "cacheForTime", "timeout", "debounce", "repeatEvery"}

\* the number of calls made in a run, by callers and by intervals: one fewer
\* where the clock, the retries or the repeats multiply the interleavings,
\* and where the callers pass no option at all
Width(fam) ==
    IF "defaults" \in fam THEN 1
    ELSE IF "repeatEvery" \in fam THEN MaxCalls + 1
    ELSE IF fam \cap (TimedKeys \cup {"retryAttempts", "repeat", "mock", "order"}) # {}
         THEN MaxCalls
    ELSE IF "response" \in fam /\ "params" \notin fam THEN MaxCalls
    ELSE IF fam = {} THEN MaxCalls
    ELSE MaxCalls + 1

\* l.72-117: the destructured value of key k
Opt(o, k) == o[k]

\* ---- params and their text -------------------------------------------------
\* params: the sequence of <<key, value>> in insertion order
RECURSIVE indexOfKey(_, _, _)
indexOfKey(p, k, i) ==
    IF i > Len(p) THEN 0
    ELSE IF p[i][1] = k THEN i ELSE indexOfKey(p, k, i + 1)

\* { ...p, [k]: v }
spread(p, k, v) ==
    LET i == indexOfKey(p, k, 1)
    IN IF i = 0 THEN Append(p, <<k, v>>) ELSE [p EXCEPT ![i] = <<k, v>>]

\* p[k]
valueOf(p, k) ==
    LET i == indexOfKey(p, k, 1) IN IF i = 0 THEN Undefined ELSE p[i][2]

\* JSON.stringify of a flat object: keys in insertion order, undefined dropped
stringify(p) == SelectSeq(p, LAMBDA kv : kv[2] # Undefined)

\* l.223-225
paramsAsText(params, paginate) ==
    stringify(IF paginate THEN spread(params, paginateKey, Undefined) ELSE params)

\* ---- response objects and payloads ----------------------------------------
\* A response object: the loading flag, the error message and the data alias
\* (<< >> when not set), and the payload fields id and items that the runs use.
EmptyContainer ==
    [isLoading |-> FALSE, error |-> << >>, data |-> << >>,
     id |-> Undefined, hasItems |-> FALSE, items |-> << >>, scalar |-> FALSE]

\* a caller's object that an earlier use left filled
UsedContainer ==
    [isLoading |-> FALSE, error |-> <<"stale">>, data |-> << >>,
     id |-> 9, hasItems |-> TRUE, items |-> <<9>>, scalar |-> FALSE]

\* what the transport answers: an object with an id, or a page of items
\* (the answer to call c carries c, so that answers are told apart).  scalar
\* tells that the field items holds a number, not an array: it has no length
\* and cannot be spread, and items is << >> then.
ObjectPayloads(c) ==
    {[id |-> c, hasItems |-> FALSE, items |-> << >>, scalar |-> FALSE]}
Pages(c) == {<< >>, <<c, c + MaxCalls + 1>>}
PagePayloads(c) ==
    {[id |-> Undefined, hasItems |-> TRUE, items |-> p, scalar |-> FALSE] :
       p \in Pages(c)}

\* the answers to a paginated call in the runs marked "scalar": a page, an
\* object without the field items, an object whose items is a number
OddPayloads(c) ==
    {[id |-> Undefined, hasItems |-> TRUE, items |-> <<c, c + MaxCalls + 1>>,
      scalar |-> FALSE],
     [id |-> c, hasItems |-> FALSE, items |-> << >>, scalar |-> FALSE],
     [id |-> Undefined, hasItems |-> TRUE, items |-> << >>, scalar |-> TRUE]}

\* the answers that the transport may give call c of a run over fam
Payloads(fam, c, paginate) ==
    IF ~paginate THEN ObjectPayloads(c)
    ELSE IF "scalar" \in fam THEN OddPayloads(c)
    ELSE PagePayloads(c)

FailureMessages == {"Failed to fetch", "HTTP error: 500"}
AbortMessage == "signal is aborted without reason"
TimeoutMessage == "The operation was aborted due to timeout"
TypeErrorMessage == "Cannot convert undefined or null to object"
RateLimitMessage == "Fetch rate limit exceeded"
SpreadMessage == "res[key] is not iterable"

\* l.233: every key of the object is set to undefined
clear(r) == EmptyContainer

\* merge, were the payload's field to replace the accumulated one
mergeOverwrite(r, res, paginateResult) ==
    [r EXCEPT
       !.id = IF res.id # Undefined THEN res.id ELSE @,
       !.hasItems = IF res.hasItems THEN TRUE ELSE @,
       !.items = IF ~res.hasItems THEN @ ELSE res.items,
       !.scalar = IF ~res.hasItems THEN @ ELSE res.scalar,
       !.data = <<res>>]

\* l.427-434: the payload's keys go into the object, the accumulate field
\* concatenated when the object already holds a non-empty one
merge(r, res, paginateResult) ==
    [r EXCEPT
       !.id = IF res.id # Undefined THEN res.id ELSE @,
       !.hasItems = IF res.hasItems THEN TRUE ELSE @,
       !.items = IF ~res.hasItems THEN @
                 ELSE IF paginateResult = "items" /\ r.hasItems /\ Len(r.items) > 0
                      THEN r.items \o res.items
                      ELSE res.items,
       !.scalar = IF ~res.hasItems THEN @ ELSE res.scalar,
       !.data = <<res>>]

\* l.431: [...response[key], ...res[key]] throws a TypeError when the object
\* holds a non-empty accumulate field and the payload's is not iterable
spreadThrows(r, res, paginateResult) ==
    /\ res.hasItems
    /\ res.scalar
    /\ paginateResult = "items"
    /\ r.hasItems
    /\ Len(r.items) > 0

\* ---- the history log --------------------------------------------------------
\* An entry of grab.log.  id numbers the entries in the order they were made
\* (an entry is an object, found again by identity); by is the call that made
\* it.  0 and << >> and "none" stand for a field the entry does not have.
NoEntry ==
    [id |-> 0, by |-> 0, path |-> "", request |-> << >>,
     lastFetchTime |-> Undefined, controller |-> "none",
     response |-> << >>, error |-> << >>, currentPage |-> Undefined]

\* grab.log.unshift(e)
unshift(lg, e) == <<[e EXCEPT !.id = Len(lg) + 1]>> \o lg

\* the position in lg of the entry numbered id
at(lg, id) == Len(lg) - id + 1

\* l.226-228: grab.log.find
RECURSIVE findFrom(_, _, _, _)
findFrom(lg, p, text, i) ==
    IF i > Len(lg) THEN 0
    ELSE IF lg[i].request = text /\ lg[i].path = p THEN i
    ELSE findFrom(lg, p, text, i + 1)

find(lg, p, text) == findFrom(lg, p, text, 1)

priorRequest(lg, p, text) ==
    LET i == find(lg, p, text) IN IF i = 0 THEN NoEntry ELSE lg[i]

\* l.238-242: the cache condition
cacheFresh(o, e) ==
    /\ Opt(o, "cache")
    /\ \/ Opt(o, "cacheForTime") = 0
       \/ /\ e.lastFetchTime # Undefined
          /\ e.lastFetchTime > now - Opt(o, "cacheForTime")

\* l.244: priorRequest.res, the field the cached fields are read from
cachedRes(e) == IF "res" \in DOMAIN e THEN e.res ELSE << >>

\* l.274-278: the rate-limit condition
rateLimited(o, e) ==
    /\ Opt(o, "rateLimit") > 0
    /\ e.lastFetchTime # Undefined
    /\ e.lastFetchTime > now - Opt(o, "rateLimit")

\* l.253-254: the page of a paginated call
pageNumber(e, params) ==
    IF e.id # 0 /\ e.currentPage # Undefined THEN e.currentPage + 1
    ELSE IF valueOf(params, paginateKey) # Undefined THEN valueOf(params, paginateKey)
    ELSE 1

\* retries, were the budget tested with >= in place of >
retriesOnceMore(o) == o.retryAttempts >= 0

\* l.461: is the failed call made again?
retries(o) == o.retryAttempts > 0

\* ---- one call of grab -----------------------------------------------------------
\* pc: "idle" not issued, "awaiting" at the await of fetch (l.358), "resolved",
\* "rejected".  options is the options object of the attempt that is running,
\* merged what l.72-117 destructure it to, issued the options as grab first
\* received them, own and through the caller's options and the defaults of
\* the instance they went through, process the process-wide defaults then.  cid is the response object of
\* the attempt, prior the id of its priorRequest, entry the id of the entry it
\* recorded at l.291, signal the signal it gave fetch (l.310-312).
\* ret is what the promise resolved with, result the object's fields then.
\* For the properties: issuedAt the time of the call, seen the length of the
\* log then, ongoing the calls that were awaiting the transport then, sends the
\* number of times the call invoked the transport, lastFailure and payload
\* what the transport last failed or answered with, hit the entry its cache
\* branch read, looked the length of the log at its lookup of l.226, entered
\* the fields of its response object after l.269, caught the number of
\* errors its catch block received, trace what the call did in order: "grab"
\* an entry of grab, "onRequest", "onResponse", "onError" a call of that hook,
\* "fetch" a call of the transport, "mock" the use of the mock handler in
\* its place; atResponse the fields of the response object when onResponse
\* was last called.  mocked tells that the call awaits the mock handler's
\* delay (l.351), not the transport.  projected lists what the function
\* passed as response was called with, cancelled the calls whose requests the
\* call aborted at l.286, before the fields of the caller's object when the
\* call was made.
\* loop is the for loop of l.137-139 when the call is in it: n its bound, i
\* the executions it has started, options and cid the options and the
\* response object of the call that loops.  rounds lists the value of repeat
\* that each execution of the loop ran with, done counts those that returned.
\* timer is the interval that made the call, 0 for a call of a caller.
NoLoop == [n |-> 0, i |-> 0, options |-> NoOptions, cid |-> 0]

IdleCall ==
    [pc |-> "idle", options |-> NoOptions, merged |-> NoOptions,
     issued |-> NoOptions, own |-> NoOptions, through |-> NoOptions,
     process |-> NoOptions,
     issuedAt |-> 0, seen |-> 0, ongoing |-> {},
     cid |-> 0, params |-> << >>, prior |-> 0, entry |-> 0,
     signal |-> "none", deadline |-> 0, aborted |-> FALSE,
     sends |-> 0, lastFailure |-> << >>, payload |-> << >>,
     hit |-> 0, looked |-> 0, entered |-> << >>, caught |-> 0,
     trace |-> << >>, atResponse |-> << >>, mocked |-> FALSE,
     projected |-> << >>, cancelled |-> {}, before |-> EmptyContainer,
     loop |-> NoLoop, rounds |-> << >>, done |-> 0, timer |-> 0,
     ret |-> "none", result |-> EmptyContainer]

\* the promise of call c resolves with the value tagged ret: "response" the
\* response object after the request, "untouched" the response object of a
\* call that made no request itself, "placeholder" the object of l.287,
\* "function" the function of l.129, "undefined" the bare return of l.160
settle(w, c, ret) ==
    [w EXCEPT !.call[c].pc = "resolved", !.call[c].ret = ret,
              !.call[c].signal = "none", !.call[c].deadline = 0,
              !.call[c].mocked = FALSE,
              !.call[c].result = IF ret = "response" THEN w.cont[w.call[c].cid]
                                 ELSE IF ret = "untouched" /\ w.call[c].cid = 0
                                      THEN w.cont[0]
                                 ELSE IF ret = "placeholder"
                                      THEN [EmptyContainer EXCEPT !.isLoading = TRUE]
                                      ELSE EmptyContainer]

\* the loop of l.137, were it to run while i <= repeat
repeatsThrough(i, n) == i <= n

\* l.137: i < repeat
repeatsAgain(i, n) == i < n

\* { ...options, repeat: 0, repeatEvery: null }, were repeatEvery left in
intervalRepeats(o) == [o EXCEPT !.repeat = 0, !.keys = @ \cup {"repeat"}, !.given = TRUE]

\* l.144: { ...options, repeat: 0, repeatEvery: null }
intervalOptions(o) ==
    [o EXCEPT !.repeat = 0, !.repeatEvery = Undefined,
              !.keys = @ \cup {"repeat", "repeatEvery"}, !.given = TRUE]

\* l.143-145: setInterval(..., repeatEvery * 1000) by call c at the time now;
\* fired counts the times it has run its callback
interval(c, o, period) ==
    [by |-> c, options |-> o, period |-> period, started |-> now, fired |-> 0]

\* the time at which the interval t next runs its callback
due(t) == t.started + (t.fired + 1) * t.period

\* { ...options, repeat: 0 }
repeatOff(o) == [o EXCEPT !.repeat = 0, !.keys = @ \cup {"repeat"}, !.given = TRUE]

RECURSIVE grab(_, _), loading(_, _, _), catch(_, _, _), again(_, _)

\* l.137-140: the head of the for loop: the next execution, or the return of
\* the looping call's own response object
again(w, c) ==
    LET lp == w.call[c].loop
    IN  IF repeatsAgain(lp.i, lp.n)
        THEN grab([w EXCEPT !.call[c].loop.i = @ + 1,
                            !.call[c].options = repeatOff(lp.options),
                            !.call[c].rounds =
                               Append(@, Opt(layer(w.defaults, repeatOff(lp.options)),
                                             "repeat"))], c)
        ELSE settle([w EXCEPT !.call[c].loop = NoLoop, !.call[c].cid = lp.cid],
                    c, "untouched")

\* the promise of an execution of grab resolves: that of the call, or that of
\* an execution that the loop of the call awaits at l.138
resolve(w, c, ret) ==
    IF w.call[c].loop.n > 0
    THEN again([w EXCEPT !.call[c].done = @ + 1], c)
    ELSE settle(w, c, ret)

\* l.286: controller.abort() on the entry numbered id; the fetch that was given
\* that controller's signal will reject
abort(w, id) ==
    [w EXCEPT
       !.log[at(w.log, id)].controller = "aborted",
       !.call = [d \in Calls |->
                   IF /\ w.call[d].pc = "awaiting"
                      /\ w.call[d].signal = "controller"
                      /\ w.call[d].entry = id
                   THEN [w.call[d] EXCEPT !.aborted = TRUE]
                   ELSE w.call[d]]]

\* the calls whose requests are aborted in v and were not in w
abortedBy(w, v) ==
    {d \in Calls : v.call[d].aborted /\ ~w.call[d].aborted}

\* l.346-350: is the mock handler h used in place of the transport?  Both
\* parts test the handler's params; a handler without method has
\* method == undefined, which equals no call's method.
substituted(h, method, text) ==
    /\ h.present
    /\ (~h.hasParams \/ (h.hasMethod /\ h.method = method))
    /\ (~h.hasParams \/ text = stringify(h.params))

\* l.178: resFunction, the function passed as response
resFunction(o) == Opt(o, "response") = "function"

\* what resFunction is called with: flag "true" or "undefined" for an object
\* with that value under isLoading, "none" for the object r without the key
update(flag, r) == [flag |-> flag, data |-> r.data, error |-> r.error]

\* l.153-158: { ...options, setDefaults: undefined }
withoutFlag(o) ==
    [o EXCEPT !.setDefaults = FALSE, !.keys = @ \ {"setDefaults"}, !.given = TRUE]

\* l.68-265: entry of grab up to the loading flag
grab(w, c) ==
    LET o == layer(w.defaults, w.call[c].options)
        cid == IF Opt(o, "response") = "shared" THEN 0 ELSE c
        paginate == Opt(o, "infiniteScroll")
        w0 == [w EXCEPT !.call[c].merged = o,
                        !.call[c].trace = Append(@, "grab"),
                        !.call[c].cid = cid,
                        !.call[c].params = o.params,
                        !.cont[cid] = IF cid = 0 THEN @ ELSE EmptyContainer]
        e == priorRequest(w.log, path, paramsAsText(o.params, paginate))
        w1 == [w0 EXCEPT !.call[c].prior = e.id, !.call[c].looked = Len(w.log)]
    IN  IF Opt(o, "debounce") > 0
        THEN \* l.128-131: debouncer() hands back executedFunction, which grab
             \* returns without calling it
             resolve(w0, c, "function")
        ELSE IF Opt(o, "repeat") > 1
        THEN \* l.136-141
             again([w0 EXCEPT !.call[c].loop =
                       [n |-> Opt(o, "repeat"), i |-> 0,
                        options |-> w.call[c].options, cid |-> cid]], c)
        ELSE IF Opt(o, "repeatEvery") # Undefined
        THEN \* l.142-147
             resolve([w0 EXCEPT !.timers =
                         Append(@, interval(c, w.call[c].options,
                                            Opt(o, "repeatEvery")))], c, "untouched")
        ELSE IF w.call[c].options.setDefaults
        THEN \* l.151-161
             resolve([w0 EXCEPT !.defaults = withoutFlag(w.call[c].options)],
                     c, "undefined")
        ELSE IF ~paginate
        THEN LET w2 == [w1 EXCEPT !.cont[cid] = clear(@)]
             IN  IF cacheFresh(o, e)
                 THEN IF cachedRes(e) = << >>
                      THEN catch([w2 EXCEPT !.call[c].hit = e.id], c, TypeErrorMessage)
                      ELSE loading([w2 EXCEPT !.call[c].hit = e.id,
                                              !.cont[cid] = w2.cont[cachedRes(e)[1]]], c, e)
                 ELSE loading(w2, c, e)
        ELSE LET page == IF e.id = 0 THEN 1 ELSE pageNumber(e, o.params)
                 w2 == IF e.id = 0
                       THEN [w1 EXCEPT !.cont[cid].hasItems = TRUE,
                                       !.cont[cid].items = << >>]
                       ELSE [w1 EXCEPT !.log[at(w1.log, e.id)].currentPage = page]
                 w3 == [w2 EXCEPT !.call[c].params = spread(o.params, paginateKey, page)]
             IN  loading(w3, c, e)

\* l.267-313 and the call of fetch at l.358
loading(w, c, e) ==
    LET o == w.call[c].merged
        cid == w.call[c].cid
        \* l.268-271
        w0 == IF resFunction(o)
              THEN [w EXCEPT !.call[c].projected =
                        @ \o <<update("true", EmptyContainer),
                               update("none", w.cont[cid])>>]
              ELSE [w EXCEPT !.cont[cid].isLoading = TRUE]
        w1 == [w0 EXCEPT !.call[c].entered = <<w0.cont[cid]>>]
    IN  IF rateLimited(o, e)
        THEN catch(w1, c, RateLimitMessage)
        ELSE IF e.controller # "none" /\ ~Opt(o, "cancelOngoingIfNew")
                /\ Opt(o, "cancelNewIfOngoing")
        THEN resolve(w1, c, "placeholder")
        ELSE LET w2 == IF e.controller # "none" /\ Opt(o, "cancelOngoingIfNew")
                       THEN abort(w1, e.id) ELSE w1
                 \* l.346-351 the mock handler, or l.358 fetch
                 text == paramsAsText(o.params, Opt(o, "infiniteScroll"))
                 mocks == substituted(mock, methodOf(w.call[c].options), text)
                 \* l.328-334 onRequest
                 did == (IF Opt(o, "onRequest") THEN <<"onRequest">> ELSE << >>)
                          \o (IF mocks THEN <<"mock">> ELSE <<"fetch">>)
                 lg == unshift(w2.log,
                         [NoEntry EXCEPT !.by = c, !.path = path,
                            !.request = paramsAsText(o.params, Opt(o, "infiniteScroll")),
                            !.lastFetchTime = now, !.controller = "live"])
             IN  [w2 EXCEPT
                    !.log = lg,
                    !.call[c].pc = "awaiting",
                    !.call[c].entry = Len(lg),
                    !.call[c].signal = IF mocks THEN "none"
                                       ELSE IF Opt(o, "cancelOngoingIfNew")
                                       THEN "controller" ELSE "timeout",
                    !.call[c].deadline = IF mocks \/ Opt(o, "cancelOngoingIfNew")
                                         THEN 0 ELSE now + Opt(o, "timeout"),
                    !.call[c].aborted = FALSE,
                    !.call[c].mocked = mocks,
                    !.call[c].cancelled = @ \cup abortedBy(w1, w2),
                    !.call[c].trace = @ \o did,
                    !.call[c].sends = IF mocks THEN @ ELSE @ + 1]

\* l.68-71, l.138, l.144, l.462, l.502: the options object of the running
\* attempt of call c is the one object that the callers hold: it is the
\* first attempt of a call that a caller of a run marked "same" made, and
\* not an execution of a repeat loop, which gets an object of its own
callersObject(w, c) ==
    /\ "same" \in family
    /\ w.call[c].caught = 0
    /\ w.call[c].loop.n = 0
    /\ w.call[c].timer = 0

\* the catch block, were the loading flag left on the object
catchLoading(v, c, message) ==
    LET o == v.call[c].options
        cid == v.call[c].cid
        w == [v EXCEPT !.call[c].caught = @ + 1,
                       !.call[c].trace =
                          IF Opt(v.call[c].merged, "onError")
                          THEN Append(@, "onError") ELSE @]
    IN  IF ~o.given
        THEN [w EXCEPT !.call[c].pc = "rejected", !.call[c].signal = "none",
                       !.call[c].deadline = 0, !.call[c].mocked = FALSE]
        ELSE IF retries(o)
        THEN grab([w EXCEPT !.call[c].options.retryAttempts = @ - 1,
                            !.passed = IF callersObject(v, c)
                                       THEN [@ EXCEPT !.retryAttempts = @ - 1]
                                       ELSE @], c)
        ELSE resolve(
               [w EXCEPT
                  !.cont[cid].error = <<message>>,
                  !.log = unshift(@, [NoEntry EXCEPT !.by = c, !.path = path,
                                        !.request = stringify(w.call[c].params),
                                        !.error = <<message>>])],
               c, "response")

\* l.450-490: the catch block
catch(v, c, message) ==
    LET o == v.call[c].options
        cid == v.call[c].cid
        \* l.457-458: onError is called before the retry is decided
        w == [v EXCEPT !.call[c].caught = @ + 1,
                       !.call[c].trace =
                          IF Opt(v.call[c].merged, "onError")
                          THEN Append(@, "onError") ELSE @]
    IN  IF ~o.given
        THEN \* l.461 reads options.retryAttempts of undefined: the TypeError
             \* leaves the catch block and the promise rejects
             [w EXCEPT !.call[c].pc = "rejected", !.call[c].signal = "none",
                       !.call[c].deadline = 0, !.call[c].mocked = FALSE]
        ELSE IF retries(o)
        THEN \* l.462-465: --options.retryAttempts writes to the object that the
             \* attempt was called with
             grab([w EXCEPT !.call[c].options.retryAttempts = @ - 1,
                            !.passed = IF callersObject(v, c)
                                       THEN [@ EXCEPT !.retryAttempts = @ - 1]
                                       ELSE @], c)
        ELSE resolve(
               [w EXCEPT
                  !.cont[cid].error = <<message>>,
                  !.cont[cid].isLoading = FALSE,
                  !.log = unshift(@, [NoEntry EXCEPT !.by = c, !.path = path,
                                        !.request = stringify(w.call[c].params),
                                        !.error = <<message>>])],
               c, "response")

\* l.385-449: after the transport answered with payload res
success(w, c, res) ==
    LET o == w.call[c].merged
        cid == w.call[c].cid
        prior == w.call[c].prior
        paginateResult == IF Opt(o, "infiniteScroll") THEN "items" ELSE ""
        \* l.387-393
        w0 == IF Opt(o, "onResponse")
              THEN [w EXCEPT !.call[c].trace = Append(@, "onResponse"),
                             !.call[c].atResponse = <<w.cont[cid]>>]
              ELSE w
        \* l.396-397
        w1 == IF resFunction(o)
              THEN [w0 EXCEPT !.call[c].projected =
                        Append(@, update("undefined", EmptyContainer))]
              ELSE [w0 EXCEPT !.cont[cid].isLoading = FALSE]
        w2 == IF prior = 0 THEN w1
              ELSE [w1 EXCEPT !.log[at(w1.log, prior)].controller = "none"]
        w3 == [w2 EXCEPT !.cont[cid] = merge(@, res, paginateResult)]
        w4 == [w3 EXCEPT
                 !.log = unshift(@, [NoEntry EXCEPT !.by = c, !.path = path,
                           !.request = stringify(spread(w.call[c].params,
                                                        "paginateKey", Undefined)),
                           !.response = <<cid>>,
                           !.lastFetchTime = now])]
        \* l.447
        w5 == IF resFunction(o)
              THEN [w4 EXCEPT !.call[c].projected =
                        Append(@, update("none", w4.cont[cid]))]
              ELSE w4
    IN  IF spreadThrows(w2.cont[cid], res, paginateResult)
        THEN catch(w2, c, SpreadMessage)
        ELSE resolve(w5, c, "response")

world ==
    [log |-> log, cont |-> cont, call |-> call, defaults |-> defaults,
     timers |-> timers, passed |-> passed]

becomes(w) ==
    /\ log' = w.log
    /\ cont' = w.cont
    /\ call' = w.call
    /\ defaults' = w.defaults
    /\ timers' = w.timers
    /\ passed' = w.passed

\* ---- the steps ------------------------------------------------------------------
Init ==
    /\ now = 1
    /\ log = << >>
    /\ family \in Families
    /\ cont \in {[i \in {0} \cup Calls |-> IF i = 0 THEN r ELSE EmptyContainer] :
                   r \in IF "response" \in family
                         THEN {EmptyContainer, UsedContainer} ELSE {EmptyContainer}}
    /\ call = [c \in Calls |-> IdleCall]
    /\ defaults \in IF "defaults" \in family
                    THEN LayerChoices(family, "process") ELSE {EmptyOptions}
    /\ timers = << >>
    /\ mock \in IF "mock" \in family THEN Handlers ELSE {NoHandler}
    /\ passed \in IF "same" \in family THEN OptionChoices(family) ELSE {NoOptions}

\* a caller calls grab(path, options); the calls are numbered as they are made
Issue(c) ==
    /\ call[c].pc = "idle"
    /\ c <= Width(family)
    /\ \A d \in Calls : d < c => call[d].pc # "idle"
    /\ \E own \in (IF "same" \in family THEN {passed} ELSE OptionChoices(family)) :
       \E through \in InstanceChoices(family) :
         LET o == IF "defaults" \in family THEN instance(through, own) ELSE own
         IN
         \* (one caller of a run asks for retries, unless the callers pass the
         \* one object; one caller asks for repeats; a run with
         \* an interval has the one caller, the calls after it are the
         \* interval's; where the params vary the calls are made one after
         \* another)
         /\ (o.retryAttempts > 0 /\ "same" \notin family)
               => \A d \in Calls : call[d].issued.retryAttempts = 0
         /\ o.repeat > 1 => \A d \in Calls : call[d].issued.repeat <= 1
         /\ "repeatEvery" \in family => c = 1
         /\ family \cap OneByOne # {} => \A d \in Calls : call[d].pc # "awaiting"
         /\ becomes(grab([world EXCEPT
                         !.call[c].options = o,
                         !.call[c].issued = o,
                         !.call[c].own = own,
                         !.call[c].through = through,
                         !.call[c].process = defaults,
                         !.call[c].issuedAt = now,
                         !.call[c].before = cont[0],
                         !.call[c].seen = Len(log),
                         !.call[c].ongoing =
                            {d \in Calls : call[d].pc = "awaiting"}], c))
    /\ UNCHANGED <<now, family, mock>>

\* the interval t runs its callback, which calls grab; the call is numbered
\* like those of the callers
IntervalFires(t, c) ==
    /\ now >= due(timers[t])
    /\ call[c].pc = "idle"
    /\ c <= Width(family)
    /\ \A d \in Calls : d < c => call[d].pc # "idle"
    /\ LET o == intervalOptions(timers[t].options)
       IN  becomes(grab([world EXCEPT
                           !.timers[t].fired = @ + 1,
                           !.call[c].options = o,
                           !.call[c].issued = o,
                           !.call[c].own = o,
                           !.call[c].process = defaults,
                           !.call[c].issuedAt = now,
                           !.call[c].seen = Len(log),
                           !.call[c].ongoing =
                              {d \in Calls : call[d].pc = "awaiting"},
                           !.call[c].timer = t], c))
    /\ UNCHANGED <<now, family, mock>>

\* the transport answers call c with a payload
TransportSucceed(c) ==
    /\ call[c].pc = "awaiting"
    /\ ~call[c].mocked
    /\ ~call[c].aborted
    /\ \E res \in Payloads(family, c, Opt(call[c].merged, "infiniteScroll")) :
         becomes(success([world EXCEPT !.call[c].payload = <<res>>], c, res))
    /\ UNCHANGED <<now, family, mock>>

\* the transport fails call c: network failure or a status that is not ok
TransportFail(c) ==
    /\ call[c].pc = "awaiting"
    /\ ~call[c].mocked
    /\ ~call[c].aborted
    /\ \E m \in FailureMessages :
         becomes(catch([world EXCEPT !.call[c].lastFailure = <<m>>], c, m))
    /\ UNCHANGED <<now, family, mock>>

\* l.351-356: the mock handler's delay is over and its response is the answer
MockAnswers(c) ==
    /\ call[c].pc = "awaiting"
    /\ call[c].mocked
    /\ becomes(success([world EXCEPT !.call[c].payload = mock.response], c,
                       mock.response[1]))
    /\ UNCHANGED <<now, family, mock>>

\* the fetch of call c rejects because its controller was aborted
AbortDelivered(c) ==
    /\ call[c].pc = "awaiting"
    /\ call[c].aborted
    /\ becomes(catch([world EXCEPT !.call[c].lastFailure = <<AbortMessage>>],
                     c, AbortMessage))
    /\ UNCHANGED <<now, family, mock>>

\* AbortSignal.timeout fires for call c
Timeout(c) ==
    /\ call[c].pc = "awaiting"
    /\ call[c].signal = "timeout"
    /\ now >= call[c].deadline
    /\ becomes(catch([world EXCEPT !.call[c].lastFailure = <<TimeoutMessage>>],
                     c, TimeoutMessage))
    /\ UNCHANGED <<now, family, mock>>

\* a second passes; a due timer or interval or a pending rejection runs
\* first, and a run ends where a due interval has no call left to make.  (The
\* clock is read only by the timed options: a run without them stays at 1.)
Tick ==
    /\ now < MaxTime
    /\ family \cap TimedKeys # {}
    /\ \A c \in Calls :
         call[c].pc = "awaiting" =>
            /\ ~call[c].aborted
            /\ call[c].signal = "timeout" => now < call[c].deadline
    /\ \A t \in DOMAIN timers : now < due(timers[t])
    /\ now' = now + 1
    /\ UNCHANGED <<log, cont, call, family, defaults, timers, mock, passed>>

Next ==
    \/ \E c \in Calls : Issue(c)
    \/ \E t \in DOMAIN timers : \E c \in Calls : IntervalFires(t, c)
    \/ \E c \in Calls : TransportSucceed(c)
    \/ \E c \in Calls : TransportFail(c)
    \/ \E c \in Calls : MockAnswers(c)
    \/ \E c \in Calls : AbortDelivered(c)
    \/ \E c \in Calls : Timeout(c)
    \/ Tick

Spec == Init /\ [][Next]_vars

\* ---- properties -----------------------------------------------------------------
issued(c) == call[c].pc # "idle"

\* calls d and c were made with the same path and params
sameKey(d, c) == call[d].issued.params = call[c].issued.params

\* the entry that call d recorded before call c was made, with a timestamp
\* less than window seconds before call c
recordedWithin(d, c, window) ==
    \E i \in DOMAIN log :
        /\ log[i].by = d
        /\ log[i].id <= call[c].seen
        /\ log[i].lastFetchTime # Undefined
        /\ call[c].issuedAt - log[i].lastFetchTime < window

\* C1: of two calls with the same path and params and rateLimit R > 0, the
\* second, made less than R seconds after the first was recorded in the log,
\* resolves with the rate-limit message in error and never invokes the
\* transport.
C1_RateLimitRejects ==
    \A c \in Calls : \A d \in Calls :
        ( /\ d < c
          /\ issued(c)
          /\ sameKey(d, c)
          /\ call[c].issued.rateLimit > 0
          /\ call[d].issued.rateLimit = call[c].issued.rateLimit
          /\ recordedWithin(d, c, call[c].issued.rateLimit) )
        => /\ call[c].pc = "resolved"
           /\ call[c].ret = "response"
           /\ call[c].result.error = <<RateLimitMessage>>
           /\ call[c].sends = 0

\* the options that C2 leaves at their defaults besides retryAttempts
plainRetry(o) ==
    /\ o.given
    /\ o.rateLimit = 0
    /\ ~o.cancelOngoingIfNew
    /\ ~o.cancelNewIfOngoing
    /\ ~o.cache
    /\ o.debounce = 0
    /\ o.repeat <= 1
    /\ o.repeatEvery = Undefined
    /\ ~o.setDefaults

fieldsOf(r) ==
    [id |-> r.id, hasItems |-> r.hasItems, items |-> r.items, scalar |-> r.scalar,
     data |-> r.data]

\* the response object of call c as it is now, or as it was returned
objectOf(c) == IF call[c].pc = "awaiting" THEN cont[call[c].cid] ELSE call[c].result

\* call d completed successfully, and was recorded so, less than the
\* cacheForTime of call c before call c was made
servedBy(d, c) ==
    /\ d < c
    /\ issued(c)
    /\ sameKey(d, c)
    /\ call[c].issued.cache
    /\ call[d].issued.cache
    /\ ~call[c].issued.infiniteScroll
    /\ ~call[d].issued.infiniteScroll
    /\ \E i \in DOMAIN log :
          /\ log[i].by = d
          /\ log[i].id <= call[c].seen
          /\ log[i].response # << >>
          /\ call[c].issuedAt - log[i].lastFetchTime < call[c].issued.cacheForTime

\* C3: the second of two identical cached calls, made within cacheForTime of
\* the first's success, holds the first's recorded response fields until a
\* revalidation completes.
C3_CachedFields ==
    \A c \in Calls : \A d \in Calls :
        (servedBy(d, c) /\ call[c].payload = << >>)
        => /\ call[c].pc # "rejected"
           /\ fieldsOf(objectOf(c)) = fieldsOf(call[d].result)
           /\ objectOf(c).error = << >>

\* C4: a call served from the cache still invokes the transport once, and
\* when that revalidation answers, resolves with its data and no error.
C4_Revalidates ==
    \A c \in Calls :
        call[c].hit # 0
        => /\ call[c].sends = 1
           /\ call[c].pc = "resolved" /\ call[c].payload # << >>
                => /\ call[c].result.data = call[c].payload
                   /\ call[c].result.error = << >>
           /\ call[c].pc = "resolved" => call[c].payload # << >> \/ call[c].lastFailure # << >>

\* the calls made with a debounce
debounced == {c \in Calls : issued(c) /\ call[c].issued.debounce > 0}

RECURSIVE sendsOf(_)
sendsOf(S) ==
    IF S = {} THEN 0
    ELSE LET c == CHOOSE x \in S : TRUE IN call[c].sends + sendsOf(S \ {c})

\* C5: k >= 1 calls with the same target and debounce D, all made within one
\* window of D: once more than D has passed since the last of them, the
\* transport has been invoked exactly once.
C5_DebounceCoalesces ==
    ( /\ debounced # {}
      /\ \A c \in debounced : \A d \in debounced :
            /\ sameKey(d, c)
            /\ call[c].issuedAt - call[d].issuedAt < call[c].issued.debounce
      /\ \A c \in debounced : now - call[c].issuedAt > call[c].issued.debounce )
    => sendsOf(debounced) = 1

\* the pages that calls 1..k received, in call order
RECURSIVE pagesUpTo(_)
pagesUpTo(k) ==
    IF k = 0 THEN << >>
    ELSE pagesUpTo(k - 1) \o call[k].payload[1].items

\* calls 1..k are paginated calls into the caller's object, each made after
\* the one before had resolved, each answered with a page at its one invocation
pageSequence(k) ==
    \A c \in 1 .. k :
        /\ call[c].pc = "resolved"
        /\ call[c].issued.infiniteScroll
        /\ call[c].issued.response = "shared"
        /\ sameKey(1, c)
        /\ call[c].ongoing = {}
        /\ call[c].sends = 1
        /\ call[c].payload # << >>

\* C6: after call k of a sequence of paginated calls with one key and one
\* object, the accumulate field is the pages of calls 1..k, in call order.
C6_PagesAccumulate ==
    \A k \in Calls :
        (pageSequence(k) /\ (k + 1 \in Calls => ~issued(k + 1)))
        => cont[0].items = pagesUpTo(k)

C6_Witness ==
    /\ pageSequence(MaxCalls + 1)
    /\ Len(cont[0].items) = 4
    /\ call[1].payload[1].items # << >>

\* C7: every call of grab resolves, whatever its options and whatever the
\* failure; the promise never rejects.
C7_NeverRejects ==
    \A c \in Calls : call[c].pc # "rejected"

\* C8: a call with cancelOngoingIfNew made while an earlier call with the same
\* key awaits the transport goes on to the transport; the earlier call's
\* request is aborted and it ends with the abort error, without a response.
C8_CancelsOngoing ==
    \A c \in Calls : \A d \in Calls :
        ( /\ issued(c)
          /\ call[c].issued.cancelOngoingIfNew
          /\ d \in call[c].ongoing
          /\ sameKey(d, c) )
        => /\ call[c].sends >= 1
           /\ call[d].pc = "awaiting" => call[d].aborted
           /\ call[d].pc = "resolved"
                => /\ call[d].payload = << >>
                   /\ call[d].result.error = <<AbortMessage>>

\* C9: a call with cancelNewIfOngoing (no cancelOngoingIfNew, no rateLimit)
\* made while an earlier call with the same key awaits the transport resolves
\* at once with the loading placeholder and never invokes the transport.
C9_CancelsNew ==
    \A c \in Calls :
        ( /\ issued(c)
          /\ call[c].issued.cancelNewIfOngoing
          /\ ~call[c].issued.cancelOngoingIfNew
          /\ call[c].issued.rateLimit = 0
          /\ \E d \in call[c].ongoing : sameKey(d, c) )
        => /\ call[c].pc = "resolved"
           /\ call[c].ret = "placeholder"
           /\ call[c].sends = 0

\* C10: no call is still waiting for the transport more than its timeout
\* after it invoked it.
C10_TimeoutAborts ==
    \A c \in Calls :
        call[c].pc = "awaiting"
        => now - log[at(log, call[c].entry)].lastFetchTime
              <= Opt(call[c].merged, "timeout")

\* C11: when a call enters loading, before the transport is invoked, its
\* response object has the loading flag set and no error, for plain and for
\* paginated calls alike, whatever error the object held before the call.
C11_LoadingEntry ==
    \A c \in Calls :
        call[c].entered # << >>
        => /\ call[c].entered[1].isLoading
           /\ call[c].entered[1].error = << >>

\* C12: when a call resolves with its response object, after a success or
\* after an error, the object's loading flag is not set.
C12_LoadingExit ==
    \A c \in Calls :
        (call[c].pc = "resolved" /\ call[c].ret = "response")
        => ~call[c].result.isLoading

C12_Witness ==
    \E c \in Calls : \E d \in Calls :
        /\ call[c].pc = "resolved" /\ call[c].ret = "response"
        /\ call[c].payload # << >>
        /\ call[c].entered # << >> /\ call[c].entered[1].isLoading
        /\ call[d].pc = "resolved" /\ call[d].ret = "response"
        /\ call[d].issued.retryAttempts = MaxRetry
        /\ call[d].sends = MaxRetry + 1
        /\ call[d].result.error # << >>
        /\ call[d].entered # << >> /\ call[d].entered[1].isLoading

\* calls 1..k are paginated calls with one key and no cursor of their own,
\* each made when no call was awaiting the transport, each sent once
oneAfterAnother(k) ==
    \A c \in 1 .. k :
        /\ issued(c)
        /\ call[c].issued.infiniteScroll
        /\ sameKey(1, c)
        /\ valueOf(call[c].issued.params, paginateKey) = Undefined
        /\ call[c].ongoing = {}
        /\ call[c].sends = 1

\* C13: in a sequence of paginated calls with one key, made one after another
\* without a cursor value of the caller's, the k-th call sends page k.
C13_PagesIncrease ==
    \A k \in Calls :
        oneAfterAnother(k) => valueOf(call[k].params, paginateKey) = k

\* call c is a paginated call into the caller's object, right after the
\* paginated call c - 1 with another key had put its page into that object,
\* every call so far made when none was awaiting the transport
keyChanged(c) ==
    /\ c > 1
    /\ issued(c)
    /\ call[c].issued.infiniteScroll /\ call[c].issued.response = "shared"
    /\ call[c - 1].issued.infiniteScroll /\ call[c - 1].issued.response = "shared"
    /\ ~sameKey(c - 1, c)
    /\ \A d \in 1 .. c : call[d].ongoing = {}
    /\ call[c - 1].pc = "resolved" /\ call[c - 1].payload # << >>
    /\ call[c].entered # << >>

\* C14: a paginated call whose key differs from that of the paginated call
\* before it into the same object starts from an empty accumulate field and
\* asks for page 1.
C14_KeyChangeResets ==
    \A c \in Calls :
        keyChanged(c)
        => /\ call[c].entered[1].items = << >>
           /\ valueOf(call[c].params, paginateKey) = 1

\* the positions of the entries that were in the log at the lookup of call c
\* and were made by a call with the path and params of call c
matching(c) ==
    {i \in DOMAIN log : log[i].id <= call[c].looked /\ sameKey(log[i].by, c)}

\* the entry that was newest among them, 0 if there is none
newestMatching(c) ==
    IF matching(c) = {} THEN 0
    ELSE log[CHOOSE i \in matching(c) : \A j \in matching(c) : i <= j].id

\* C15: the log holds every entry ever made, the newest first, and the lookup
\* of a call finds the newest entry made for its path and its params without
\* the cursor.
C15_LogGrowsLookupNewest ==
    /\ \A i \in DOMAIN log : log[i].id = Len(log) - i + 1
    /\ \A c \in Calls : issued(c) => call[c].prior = newestMatching(c)

\* the positions of the entries that call c made
entriesOf(c) == {i \in DOMAIN log : log[i].by = c}

\* C16: a call that went to the transport once and has completed has made one
\* entry, the one of its start, which now holds the response or the error and
\* no controller.
C16_OneEntryPerCall ==
    \A c \in Calls :
        ( /\ call[c].pc = "resolved"
          /\ call[c].ret = "response"
          /\ call[c].sends = 1
          /\ call[c].caught <= 1 )
        => /\ Cardinality(entriesOf(c)) = 1
           /\ \A i \in entriesOf(c) :
                /\ log[i].id = call[c].entry
                /\ log[i].controller = "none"
                /\ log[i].response # << >> \/ log[i].error # << >>

\* the positions of the entries of call c that carry an error message
errorEntriesOf(c) == {i \in entriesOf(c) : log[i].error # << >>}

\* C17: every error that the catch block of a call received, on whichever
\* attempt and whether the transport was reached or not, has its entry in the
\* log.
C17_FailuresRecorded ==
    \A c \in Calls :
        call[c].issued.given
        => Cardinality(errorEntriesOf(c)) = call[c].caught

\* the value of key k for call c by the layers: the caller's options, else
\* the defaults of the instance, else the process-wide defaults, else the
\* built-in default
layered(c, k) ==
    IF k \in call[c].own.keys THEN call[c].own[k]
    ELSE IF k \in call[c].through.keys THEN call[c].through[k]
    ELSE IF k \in call[c].process.keys THEN call[c].process[k]
    ELSE NoOptions[k]

\* C18: a call acts on the layered value of its option keys: the transport is
\* given the layered timeout, and a call whose every attempt failed has made
\* the layered number of retries.
C18_LayeredOptions ==
    \A c \in Calls :
        /\ (call[c].pc = "awaiting" /\ call[c].signal = "timeout")
           => call[c].deadline
                 = log[at(log, call[c].entry)].lastFetchTime + layered(c, "timeout")
        /\ (call[c].pc = "resolved" /\ call[c].payload = << >> /\ call[c].sends > 0)
           => call[c].sends = layered(c, "retryAttempts") + 1

\* the calls made with repeat > 1, no debounce and the other options plain
repeating ==
    {c \in Calls : issued(c) /\ call[c].issued.repeat > 1 /\ plainRetry(
                      [call[c].issued EXCEPT !.repeat = 0])}

\* C19: a call with repeat = n > 1 runs n executions, each with repeat off and
\* each begun after the one before returned, and resolves after the n-th
\* returned, having invoked the transport n times.
C19_RepeatsInTurn ==
    \A c \in repeating :
        LET n == call[c].issued.repeat
            started == Len(call[c].rounds)
        IN  /\ started <= n
            /\ \A j \in DOMAIN call[c].rounds : call[c].rounds[j] = 0
            /\ call[c].pc \in {"awaiting", "resolved"}
            /\ call[c].pc = "awaiting"
                 => /\ call[c].done = started - 1
                    /\ call[c].sends = started
            /\ call[c].pc = "resolved"
                 => /\ started = n
                    /\ call[c].done = n
                    /\ call[c].sends = n
                    /\ call[c].ret = "untouched"

C19_Witness ==
    \E c \in repeating :
        /\ call[c].issued.repeat = MaxRepeat
        /\ call[c].pc = "resolved"
        /\ call[c].done = MaxRepeat
        /\ call[c].rounds = [j \in 1 .. MaxRepeat |-> 0]
        /\ call[c].payload # << >>
        /\ call[c].lastFailure # << >>

\* the calls that the interval t has made
madeBy(t) == {d \in Calls : call[d].timer = t}

\* the calls of callers with repeatEvery set, repeat <= 1 and no debounce
scheduling ==
    {c \in Calls : /\ issued(c)
                   /\ call[c].timer = 0
                   /\ call[c].issued.repeatEvery # Undefined
                   /\ plainRetry([call[c].issued EXCEPT !.repeatEvery = Undefined])}

\* C20: a call with repeatEvery = T has returned without invoking the
\* transport and has set one interval, which stays set; at each T seconds
\* after the call the interval has started one execution, with repeat and
\* repeatEvery off, which goes to the transport.
C20_RepeatsEvery ==
    \A c \in scheduling :
        /\ call[c].pc = "resolved"
        /\ call[c].ret = "untouched"
        /\ call[c].sends = 0
        /\ Cardinality({t \in DOMAIN timers : timers[t].by = c}) = 1
        /\ \A t \in DOMAIN timers :
             timers[t].by = c =>
                LET T == call[c].issued.repeatEvery
                    n == Cardinality(madeBy(t))
                IN  /\ timers[t].period = T
                    /\ timers[t].started = call[c].issuedAt
                    /\ now <= call[c].issuedAt + (n + 1) * T
                    /\ {call[d].issuedAt : d \in madeBy(t)}
                          = {call[c].issuedAt + k * T : k \in 1 .. n}
                    /\ \A d \in madeBy(t) :
                          /\ call[d].merged.repeat = 0
                          /\ call[d].merged.repeatEvery = Undefined
                          /\ call[d].sends = 1

C20_Witness ==
    \E c \in scheduling : \E t \in DOMAIN timers :
        /\ timers[t].by = c
        /\ Cardinality(madeBy(t)) = 2
        /\ now = call[c].issuedAt + 2 * call[c].issued.repeatEvery
        /\ \A d \in madeBy(t) : call[d].sends = 1

\* the number of times x occurs in the trace t
count(t, x) == Cardinality({i \in DOMAIN t : t[i] = x})

\* the smaller of two numbers
least(a, b) == IF a < b THEN a ELSE b

\* call c passed the three hooks
hooked(c) ==
    /\ issued(c)
    /\ call[c].merged.onRequest
    /\ call[c].merged.onResponse
    /\ call[c].merged.onError

\* C21: for every attempt of a call that reaches the transport, onRequest is
\* called exactly once, before the transport; then exactly one of onResponse
\* (after the answer, the object not yet updated) or onError (after a
\* failure) is called; onError changes neither whether the call is retried
\* nor the error that is stored.
C21_HooksOncePerAttempt ==
    \A c \in Calls :
        hooked(c) =>
            LET t == call[c].trace
            IN  /\ \A i \in DOMAIN t :
                     t[i] = "fetch" =>
                        /\ i > 2
                        /\ t[i - 1] = "onRequest"
                        /\ t[i - 2] = "grab"
                        /\ i = Len(t) => call[c].pc = "awaiting"
                        /\ i < Len(t) => t[i + 1] \in {"onResponse", "onError"}
                        /\ i + 1 < Len(t) => t[i + 2] = "grab"
                /\ \A i \in DOMAIN t :
                     t[i] = "onRequest" => i < Len(t) /\ t[i + 1] = "fetch"
                /\ \A i \in DOMAIN t :
                     t[i] = "onResponse" =>
                        /\ i > 1
                        /\ t[i - 1] = "fetch"
                        /\ call[c].atResponse # << >>
                        /\ call[c].atResponse[1].isLoading
                /\ count(t, "grab") =
                     1 + least(call[c].caught, call[c].issued.retryAttempts)
                /\ ( /\ call[c].pc = "resolved"
                     /\ Len(t) > 1
                     /\ t[Len(t)] = "onError"
                     /\ t[Len(t) - 1] = "fetch" )
                   => call[c].result.error = call[c].lastFailure

\* the mock handler's method and params, where it has them, are those of call c
handlerMatches(c) ==
    /\ ~mock.hasMethod \/ mock.method = methodOf(call[c].issued)
    /\ ~mock.hasParams \/ stringify(mock.params) = stringify(call[c].issued.params)

\* C22: with a mock handler registered under the call's path, the handler's
\* response is used in place of the transport exactly when the handler has
\* no method or the call's method, and no params or params with the text of
\* the call's; the transport is invoked exactly when the handler is not used.
C22_MockSubstitutedOnMatch ==
    \A c \in Calls :
        mock.present =>
            \A i \in DOMAIN call[c].trace :
                call[c].trace[i] \in {"fetch", "mock"} =>
                    (call[c].trace[i] = "mock" <=> handlerMatches(c))

\* call c resolved after the transport answered it: it recorded the
\* completion entry of l.439-445
succeeded(c) ==
    /\ call[c].pc = "resolved"
    /\ call[c].ret = "response"
    /\ call[c].payload # << >>
    /\ \E i \in DOMAIN log : log[i].by = c /\ log[i].response # << >>

\* C23: after a non-paginated call completed successfully with the object
\* payload P into the caller's own object, the object holds every field of
\* P, data = P, no loading flag, no error and no value left over from the
\* fields it had before the call.
C23_ReplacedByPayload ==
    \A c \in Calls :
        ( /\ succeeded(c)
          /\ ~call[c].merged.infiniteScroll
          /\ call[c].merged.response = "shared" )
        => LET P == call[c].payload[1]
           IN  call[c].result =
                  [isLoading |-> FALSE, error |-> << >>, data |-> <<P>>,
                   id |-> P.id, hasItems |-> FALSE, items |-> << >>,
                   scalar |-> FALSE]

\* C24: when response is a function, it is called with the loading-start
\* update before the transport is invoked, and on every completion it is
\* called with the loading-end update and with the data (success) or the
\* error message (failure).
C24_ProjectionToldOfCompletion ==
    \A c \in Calls :
        ( /\ issued(c)
          /\ resFunction(call[c].merged)
          /\ count(call[c].trace, "fetch") > 0 )
        => LET p == call[c].projected
           IN  /\ p # << >>
               /\ p[1].flag = "true"
               /\ call[c].pc = "resolved" =>
                    /\ \E i \in DOMAIN p : p[i].flag = "undefined"
                    /\ \/ /\ succeeded(c)
                          /\ \E i \in DOMAIN p : p[i].data = call[c].payload
                       \/ /\ ~succeeded(c)
                          /\ \E i \in DOMAIN p :
                                p[i].error = call[c].lastFailure

\* the keys of the params p with their values
pairs(p) == {p[i] : i \in DOMAIN p}

\* C25: two calls to one path whose params hold the same keys and values,
\* in whatever order the keys were written, have the same key: the second
\* call's lookup finds the entry that the first call recorded.
C25_KeyOrderIgnored ==
    \A c \in Calls : \A d \in Calls :
        ( /\ d < c
          /\ issued(c)
          /\ pairs(call[d].issued.params) = pairs(call[c].issued.params)
          /\ call[d].entry # 0
          /\ call[d].entry <= call[c].looked )
        => call[c].prior # 0

\* C26: an attempt that the rate limit rejects (onError is called right
\* after the entry of grab, the transport not invoked) is the last of its
\* call, whatever retryAttempts is: the call resolves with the rate-limit
\* message, onError was called once for the rejection and the retry budget
\* is as it was.
C26_RateLimitNotRetried ==
    \A c \in Calls :
        ( /\ issued(c)
          /\ call[c].merged.onError
          /\ call[c].merged.rateLimit > 0 )
        => LET t == call[c].trace
           IN  \A i \in DOMAIN t :
                   ( /\ t[i] = "grab"
                     /\ i < Len(t)
                     /\ t[i + 1] = "onError" )
                   => /\ i + 1 = Len(t)
                      /\ call[c].pc = "resolved"
                      /\ call[c].result.error = <<RateLimitMessage>>
                      /\ call[c].options.retryAttempts =
                            call[c].issued.retryAttempts - (count(t, "grab") - 1)

\* the last attempt of call c was answered by the transport
answeredLast(c) ==
    LET t == call[c].trace
    IN  /\ hooked(c)
        /\ Len(t) > 1
        /\ \/ t[Len(t)] = "onResponse"
           \/ t[Len(t)] = "onError" /\ t[Len(t) - 1] = "onResponse"

\* C27: when the payload of a paginated call has no accumulate field, or one
\* that is not an array, the object's accumulate field is left as it was
\* (nothing is merged, the earlier items are kept) and the call does not
\* fail: it stores no error.
C27_NonArrayLeftAlone ==
    \A c \in Calls :
        ( /\ call[c].pc = "resolved"
          /\ call[c].merged.infiniteScroll
          /\ answeredLast(c)
          /\ \/ ~call[c].payload[1].hasItems
             \/ call[c].payload[1].scalar )
        => /\ call[c].result.error = call[c].entered[1].error
           /\ call[c].result.hasItems = call[c].entered[1].hasItems
           /\ call[c].result.items = call[c].entered[1].items
           /\ call[c].result.scalar = call[c].entered[1].scalar

\* call c found the entry of call d, which was awaiting the transport then
matchedInFlight(d, c) ==
    /\ issued(c)
    /\ d \in call[c].ongoing
    /\ call[d].entry # 0
    /\ call[c].prior = call[d].entry

\* C28: when a call matches an in-flight entry whose timestamp is inside the
\* call's rate-limit window, the in-flight policy comes first: with
\* cancelNewIfOngoing the call resolves with the placeholder and not with
\* the rate-limit error, with cancelOngoingIfNew the older call is aborted.
C28_InFlightPolicyBeforeRateLimit ==
    \A c \in Calls : \A d \in Calls :
        ( /\ matchedInFlight(d, c)
          /\ call[c].merged.rateLimit > 0
          /\ call[c].issuedAt - call[d].issuedAt < call[c].merged.rateLimit )
        => /\ call[c].merged.cancelOngoingIfNew =>
                \/ call[d].aborted
                \/ call[d].lastFailure = <<AbortMessage>>
           /\ ( /\ call[c].merged.cancelNewIfOngoing
                /\ ~call[c].merged.cancelOngoingIfNew )
              => /\ call[c].pc = "resolved"
                 /\ call[c].ret = "placeholder"

\* the executions of grab that call c stands for: one, or those that its
\* repeat loop has started (each a call of grab that the loop makes)
executions(c) == IF call[c].rounds = << >> THEN 1 ELSE Len(call[c].rounds)

\* the transport, the mock handler or the abort can complete the await of
\* call c
canComplete(c) ==
    ENABLED ( \/ TransportSucceed(c)
              \/ TransportFail(c)
              \/ MockAnswers(c)
              \/ AbortDelivered(c) )

\* C29: with finitely many calls, finite retryAttempts and no repeatEvery,
\* under a transport that always answers or fails, every call resolves and
\* the transport is invoked at most 1 + retryAttempts times per call.  As a
\* property of the finite runs: a call that was made is awaiting an await
\* that can complete, or has resolved; and its invocations of the transport
\* stay within 1 + retryAttempts per execution.
C29_ResolvesWithinBudget ==
    \A c \in Calls :
        ( /\ issued(c)
          /\ call[c].issued.repeatEvery = Undefined
          /\ call[c].timer = 0 )
        => /\ \/ call[c].pc = "awaiting" /\ canComplete(c)
              \/ call[c].pc = "resolved"
           /\ call[c].sends <= executions(c) * (1 + call[c].issued.retryAttempts)

\* call c was made with setDefaults: true
setter(c) == issued(c) /\ call[c].own.setDefaults

\* call c is the last call with setDefaults made before call d (before the
\* end of the run when d is 0)
lastSetter(c, d) ==
    /\ setter(c)
    /\ d # 0 => c < d
    /\ \A e \in Calls : (c < e /\ (d = 0 \/ e < d)) => ~setter(e)

\* the options of call c without the flag
optionsOf(c, k) == k \in call[c].own.keys \ {"setDefaults"}

\* C30: a call with setDefaults: true stores its options, without the flag,
\* as the process-wide defaults in place of those before, invokes no
\* transport and adds no log entry; a later call acts on these defaults
\* where its own options have no value: it is debounced by their debounce
\* and retried by their retryAttempts.
C30_SetDefaultsStores ==
    /\ \A c \in Calls :
          setter(c) =>
             /\ call[c].sends = 0
             /\ count(call[c].trace, "mock") = 0
             /\ \A i \in DOMAIN log : log[i].by # c
    /\ \A c \in Calls :
          lastSetter(c, 0) =>
             /\ defaults.keys = call[c].own.keys \ {"setDefaults"}
             /\ \A k \in defaults.keys : defaults[k] = call[c].own[k]
    /\ \A c \in Calls : \A d \in Calls :
          ( /\ lastSetter(c, d)
            /\ issued(d)
            /\ ~setter(d) )
          => LET value(k) == IF k \in call[d].own.keys THEN call[d].own[k]
                             ELSE IF optionsOf(c, k) THEN call[c].own[k]
                             ELSE NoOptions[k]
             IN  /\ (call[d].pc = "resolved" /\ call[d].ret = "function")
                       <=> value("debounce") > 0
                 /\ ( /\ call[d].pc = "resolved"
                      /\ call[d].payload = << >>
                      /\ call[d].sends > 0 )
                    => call[d].sends = value("retryAttempts") + 1

\* the positions of the entries made at l.291-296, one for each invocation
\* of the transport: they carry the time of the invocation and neither a
\* response nor an error
startEntries ==
    {i \in DOMAIN log : /\ log[i].lastFetchTime # Undefined
                        /\ log[i].response = << >>
                        /\ log[i].error = << >>}

\* every call made so far with the key of call c carries the rateLimit R > 0
allLimited(c, R) ==
    /\ R > 0
    /\ \A d \in Calls : (issued(d) /\ sameKey(d, c)) => call[d].merged.rateLimit = R

\* C31: if every call to a key carries rateLimit = R > 0, any two transport
\* invocations for that key are at least R seconds apart, also when a call is
\* made right after an earlier one was rejected by the rate limit or failed
\* at the transport.
C31_InvocationsSpaced ==
    \A i \in startEntries : \A j \in startEntries :
        ( /\ i < j
          /\ sameKey(log[i].by, log[j].by)
          /\ allLimited(log[i].by, call[log[i].by].merged.rateLimit) )
        => log[i].lastFetchTime - log[j].lastFetchTime
              >= call[log[i].by].merged.rateLimit

\* the calls with the key of call c that are awaiting the transport with a
\* signal that is not aborted
live(c) ==
    {d \in Calls : /\ sameKey(d, c)
                   /\ call[d].pc = "awaiting"
                   /\ ~call[d].mocked
                   /\ ~call[d].aborted}

\* every call made so far with the key of call c was made with
\* cancelOngoingIfNew and retryAttempts = 0
allCancelOngoing(c) ==
    \A d \in Calls :
        (issued(d) /\ sameKey(d, c))
        => /\ call[d].merged.cancelOngoingIfNew
           /\ call[d].issued.retryAttempts = 0

\* C32: if every call for a key is made with cancelOngoingIfNew and
\* retryAttempts = 0, at most one call for that key is awaiting the transport
\* with a non-aborted signal at any time, however many calls overlap.
C32_OneLiveRequest ==
    \A c \in Calls :
        (issued(c) /\ allCancelOngoing(c)) => Cardinality(live(c)) <= 1

\* call c was made with cancelNewIfOngoing and nothing else that keeps a call
\* from the transport, when no call with its key was awaiting the transport
madeWhenIdle(c) ==
    /\ issued(c)
    /\ call[c].merged.cancelNewIfOngoing
    /\ ~call[c].merged.cancelOngoingIfNew
    /\ plainRetry([call[c].merged EXCEPT !.cancelNewIfOngoing = FALSE])
    /\ \A d \in call[c].ongoing : ~sameKey(d, c)

\* C33: a call with cancelNewIfOngoing is short-circuited with the loading
\* placeholder only if a call with the same key is awaiting the transport at
\* that moment: made when every earlier call with its key has resolved, it
\* goes to the transport, whether it paginates or not.
C33_PlaceholderOnlyWhenOngoing ==
    \A c \in Calls :
        madeWhenIdle(c)
        => /\ call[c].sends >= 1
           /\ ~(call[c].pc = "resolved" /\ call[c].ret = "placeholder")

\* position i of the trace of call c is the entry of grab of a retry that a
\* failure of the transport triggered
retryOfFailure(c, i) ==
    LET t == call[c].trace
    IN  /\ i \in DOMAIN t
        /\ i > 1
        /\ t[i] = "grab"
        /\ \/ t[i - 1] = "fetch"
           \/ i > 2 /\ t[i - 1] = "onError" /\ t[i - 2] = "fetch"

\* C34: a retry that a failure of the transport triggered reaches the
\* transport itself: the entry that the failed attempt left in the log
\* neither has the rate limit reject it nor has cancelNewIfOngoing
\* short-circuit it.
C34_RetryReachesTransport ==
    \A c \in Calls :
        LET t == call[c].trace
        IN  \A i \in DOMAIN t :
                ( /\ retryOfFailure(c, i)
                  /\ call[c].prior = call[c].entry )
                => /\ i < Len(t)
                   /\ t[i + 1] \in {"onRequest", "fetch", "mock"}

\* C35: when a call B with cancelOngoingIfNew aborts the request of an older
\* in-flight call A with its key, no request of B is aborted through A's
\* handling of its failure, whatever A's retryAttempts: A aborts no request
\* of B.
C35_AbortStaysWithOlder ==
    \A c \in Calls : \A d \in Calls :
        ( /\ d < c
          /\ sameKey(d, c)
          /\ d \in call[c].cancelled )
        => c \notin call[d].cancelled

\* call c was short-circuited at l.287, it was made with the caller's object
\* and no other call has been made with that object
rejectedAlone(c) ==
    /\ call[c].pc = "resolved"
    /\ call[c].ret = "placeholder"
    /\ call[c].merged.response = "shared"
    /\ \A d \in Calls : (d # c /\ issued(d)) => call[d].merged.response # "shared"

\* C36: a call rejected by cancelNewIfOngoing leaves the caller's object as
\* it was: no field of it is cleared and its loading flag is not set after
\* the call has resolved.
C36_RejectedLeavesObject ==
    \A c \in Calls :
        rejectedAlone(c)
        => /\ cont[0] = call[c].before
           /\ ~cont[0].isLoading

\* call c was made with options that have no retryAttempts, under
\* process-wide defaults that have one; it went to the transport, every
\* attempt failed and it has resolved
failedUnderDefault(c) ==
    /\ call[c].pc = "resolved"
    /\ call[c].issued.given
    /\ "retryAttempts" \notin call[c].issued.keys
    /\ "retryAttempts" \in call[c].process.keys
    /\ call[c].process.retryAttempts > 0
    /\ call[c].merged.debounce = 0
    /\ call[c].sends > 0
    /\ call[c].payload = << >>

\* C37: a retryAttempts that only the process-wide defaults hold gives a
\* failing call that many retries, as the merged options have it.
C37_DefaultRetriesHonoured ==
    \A c \in Calls :
        failedUnderDefault(c)
        => /\ call[c].merged.retryAttempts = call[c].process.retryAttempts
           /\ call[c].sends = call[c].merged.retryAttempts + 1

\* the callers hold one options object and call c was made with it
sameObject(c) == "same" \in family /\ issued(c) /\ call[c].timer = 0

\* C38: grab does not modify the options object that the caller passes:
\* after any call, one that failed and was retried included, the object (its
\* retryAttempts in particular) is as the caller made it, so that each of two
\* successive failing calls with the one object gets the full retry budget.
C38_OptionsUnmodified ==
    \A c \in Calls :
        sameObject(c)
        => /\ passed = call[1].own
           /\ call[c].own = call[1].own
           /\ ( /\ call[c].pc = "resolved"
                /\ call[c].sends > 0
                /\ call[c].payload = << >> )
              => call[c].sends = call[1].own.retryAttempts + 1

\* the positions of the entries written when a call that had made a start
\* entry completed: that of l.440-445 with the response, that of l.481-485
\* with the error
completionEntries ==
    {i \in DOMAIN log : /\ log[i].response # << >> \/ log[i].error # << >>
                        /\ call[log[i].by].entry # 0}

\* C39: every entry written when a call completes, with a response or with
\* an error, has the path and the request text of the entry written at that
\* call's start, so that a later lookup with the call's key finds it; for
\* non-paginated and for paginated calls.
C39_CompletionKeepsSignature ==
    \A i \in completionEntries :
        LET c == log[i].by
            start == log[at(log, call[c].entry)]
        IN  /\ log[i].path = start.path
            /\ log[i].request = start.request
            /\ \A d \in Calls :
                   ( /\ issued(d)
                     /\ sameKey(c, d)
                     /\ log[i].id <= call[d].looked )
                   => call[d].prior >= log[i].id

====
